---- MODULE Spec2Model ----
(***************************************************************************)
(* State-machine model of lib/run_repo_tests.py: build_result,             *)
(* format_report, run_tests, fetch_package_metadata, package_name and      *)
(* test_pull_request.                                                      *)
(*                                                                         *)
(* Strings that the code inspects character by character (archive entry    *)
(* names, filesystem paths) are sequences of one-character strings, so     *)
(* that find, startswith, slicing, os.path.join and os.path.abspath are    *)
(* computed the way Python (posixpath) computes them.  Strings that are    *)
(* only compared or copied (messages, package names, URLs) are TLA+        *)
(* strings or small records.                                               *)
(***************************************************************************)
EXTENDS Integers, Sequences, FiniteSets, TLC

(***************************************************************************)
(* Bounds of the model                                                     *)
(***************************************************************************)
\* longest archive (number of zip entries) explored by SpecExtract
MaxEntries == 2
\* number of registered file checkers (file_checkers.get_checkers())
NumCheckers == 1
\* longest "releases" list of a package spec
MaxReleases == 1
\* longest package list of one manifest revision explored by SpecDiff
MaxPackages == 2

(***************************************************************************)
(* Python string operations on character sequences                         *)
(***************************************************************************)
SEP == "/"

BSL == "\\"

\* s[k:] for 0 <= k (Python slicing never fails)
SliceFrom(s, k) == IF k >= Len(s) THEN <<>> ELSE SubSeq(s, k + 1, Len(s))

\* s[0:k]
SliceTo(s, k) == IF k <= 0 THEN <<>> ELSE SubSeq(s, 1, IF k > Len(s) THEN Len(s) ELSE k)

\* s.startswith(p)
StartsWith(s, p) == Len(p) <= Len(s) /\ SubSeq(s, 1, Len(p)) = p

\* s.endswith(p)
EndsWith(s, p) == Len(p) <= Len(s) /\ SubSeq(s, Len(s) - Len(p) + 1, Len(s)) = p

\* sub in s
Contains(s, sub) ==
    \E i \in 1..(Len(s) - Len(sub) + 1) : SubSeq(s, i, i + Len(sub) - 1) = sub

\* s.find(c): 0-based index of the first c, -1 when there is none
Find(s, c) ==
    IF \E i \in 1..Len(s) : s[i] = c
    THEN (CHOOSE i \in 1..Len(s) : s[i] = c /\ \A j \in 1..(i - 1) : s[j] # c) - 1
    ELSE -1

\* s.rfind(c)
RFind(s, c) ==
    IF \E i \in 1..Len(s) : s[i] = c
    THEN (CHOOSE i \in 1..Len(s) : s[i] = c /\ \A j \in (i + 1)..Len(s) : s[j] # c) - 1
    ELSE -1

\* s.replace(c, d) for single characters
Replace(s, c, d) == [i \in 1..Len(s) |-> IF s[i] = c THEN d ELSE s[i]]

\* s.split('/')
RECURSIVE Split(_)
Split(s) ==
    LET k == Find(s, SEP)
    IN  IF k = -1 THEN <<s>>
        ELSE <<SliceTo(s, k)>> \o Split(SliceFrom(s, k + 1))

\* '/'.join(comps)
RECURSIVE JoinSep(_)
JoinSep(comps) ==
    IF comps = <<>> THEN <<>>
    ELSE IF Len(comps) = 1 THEN comps[1]
    ELSE comps[1] \o <<SEP>> \o JoinSep(Tail(comps))

\* s.rstrip('/')
RECURSIVE RStripSep(_)
RStripSep(s) ==
    IF s # <<>> /\ s[Len(s)] = SEP THEN RStripSep(SubSeq(s, 1, Len(s) - 1)) ELSE s

\* posixpath.join(a, b)
PathJoin(a, b) ==
    IF StartsWith(b, <<SEP>>) THEN b
    ELSE IF a = <<>> \/ EndsWith(a, <<SEP>>) THEN a \o b
    ELSE a \o <<SEP>> \o b

\* the component loop of posixpath.normpath
RECURSIVE NormComps(_, _, _)
NormComps(comps, acc, initial_slashes) ==
    IF comps = <<>> THEN acc
    ELSE LET comp == Head(comps)
             rest == Tail(comps)
         IN  IF comp = <<>> \/ comp = <<".">> THEN NormComps(rest, acc, initial_slashes)
             ELSE IF comp # <<".", ".">>
                     \/ (initial_slashes = 0 /\ acc = <<>>)
                     \/ (acc # <<>> /\ acc[Len(acc)] = <<".", ".">>)
                  THEN NormComps(rest, Append(acc, comp), initial_slashes)
             ELSE IF acc # <<>>
                  THEN NormComps(rest, SubSeq(acc, 1, Len(acc) - 1), initial_slashes)
             ELSE NormComps(rest, acc, initial_slashes)

\* posixpath.normpath(path)
NormPath(path) ==
    IF path = <<>> THEN <<".">>
    ELSE LET initial_slashes ==
                 IF ~StartsWith(path, <<SEP>>) THEN 0
                 ELSE IF StartsWith(path, <<SEP, SEP>>) /\ ~StartsWith(path, <<SEP, SEP, SEP>>)
                      THEN 2 ELSE 1
             body == JoinSep(NormComps(Split(path), <<>>, initial_slashes))
             out == [i \in 1..initial_slashes |-> SEP] \o body
         IN  IF out = <<>> THEN <<".">> ELSE out

\* the working directory of the process
Cwd == <<SEP, "w">>

\* posixpath.abspath(path)
AbsPath(path) ==
    IF StartsWith(path, <<SEP>>) THEN NormPath(path) ELSE NormPath(PathJoin(Cwd, path))

\* posixpath.dirname(p)
DirName(p) ==
    LET head == SliceTo(p, RFind(p, SEP) + 1)
    IN  IF head # <<>> /\ RStripSep(head) # <<>> THEN RStripSep(head) ELSE head

\* str.lower(), on the letters the model uses
LowerChar(c) ==
    CASE c = "S" -> "s"
      [] c = "P" -> "p"
      [] OTHER -> c

Lower(s) == [i \in 1..Len(s) |-> LowerChar(s[i])]

ToSet(seq) == {seq[i] : i \in 1..Len(seq)}

(***************************************************************************)
(* Values                                                                  *)
(***************************************************************************)
\* Python None where a string is expected; isstr tells isinstance(v, str)
NoneVal == [isstr |-> FALSE, s |-> <<>>]

Str(chars) == [isstr |-> TRUE, s |-> chars]

Https == <<"h", "t", "t", "p", "s", ":", "/", "/">>

Http == <<"h", "t", "t", "p", ":", "/", "/">>

Sublime == <<"s", "u", "b", "l", "i", "m", "e">>

NoPath == <<>>

\* what tempfile.mkdtemp() returns to run_tests
RunTmpDir == <<SEP, "T">>

\* what tempfile.mkdtemp() returns to test_pull_request
PrTmpDir == <<SEP, "R">>

NoResult == [result |-> "none", details |-> [errors |-> <<>>, warnings |-> <<>>]]

(***************************************************************************)
(* build_result and format_report                                          *)
(***************************************************************************)
\* build_result, but warnings are looked at first
build_result_warnings_first(errs, warns) ==
    [result |-> IF warns # <<>> THEN "warnings"
                ELSE IF errs # <<>> THEN "errors"
                ELSE "success",
     details |-> [errors |-> errs, warnings |-> warns]]

build_result(errs, warns) ==
    [result |-> IF errs # <<>> THEN "errors"
                ELSE IF warns # <<>> THEN "warnings"
                ELSE "success",
     details |-> [errors |-> errs, warnings |-> warns]]

\* format_report of a str: a dict with the message and no details.  arg holds
\* the value interpolated into the message with %, when there is one.
format_report(msg) == [isdict |-> TRUE, message |-> msg, arg |-> <<>>, details |-> <<>>]

format_report_arg(msg, arg) == [isdict |-> TRUE, message |-> msg, arg |-> arg, details |-> <<>>]

\* format_report of a checker's report object (message, details)
format_report_obj(report) ==
    [isdict |-> TRUE, message |-> report.message, arg |-> <<>>, details |-> report.details]

\* a bare str appended to a findings list without format_report
RawStr(msg) == [isdict |-> FALSE, message |-> msg, arg |-> <<>>, details |-> <<>>]

MsgSublime == "Package name contains the word \"sublime\""

MsgNoReleasesFound == "No releases found; check to ensure you have created a valid semver tag"

MsgNoReleasesSpecified == "No releases specified"

MsgBranch == "Branch-based releases are not supported for new packages; please use \"tags\": true"

MsgPlatforms == "The \"platforms\" key may be omitted instead of specifying all platform"

MsgReadme == "Creating a readme for your package will help users understand what it does and how to use it"

MsgInvalidName == "Invalid package name"

MsgNotHttps == "Primary release URL does not begin with https://"

MsgTraversal == "The path \"%s\" appears to be attempting to access other parts of the filesystem"

MsgDownload == "DownloaderException"

(***************************************************************************)
(* State                                                                   *)
(***************************************************************************)
VARIABLES
    \* ---- the filesystem and the network
    fs_dirs,            \* directories that exist                     (set of paths)
    fs_files,           \* regular files that exist                   (set of paths)
    conns,              \* pooled connections currently open
    fetched,            \* downloader fetches issued so far: <<purpose, url or item>>
    \* ---- fetch_package_metadata
    fm_ret,             \* the value its return statement (or raise) has pending
    fm_closed,          \* close_all_connections() ran in this call
    \* ---- run_tests
    rt_pc,              \* control position
    spec,               \* the argument: one package entry of a manifest
    res,                \* res, info = fetch_package_metadata(spec)
    info,
    errors,             \* the errors list
    warnings,           \* the warnings list
    tmpdir,             \* NoPath is None
    namelist,           \* package_zip.namelist()
    root_level_paths,
    last_path,          \* NoneVal is None
    skip_root_dir,
    idx,                \* position of the running for loop (zip entries, checkers)
    extracted,          \* history: per zip entry written, <<entry index, dest>>
    rt_pending,         \* the value run_tests is returning while its finally runs
    rt_result,          \* what the finished call returned (NoResult: nothing)
    \* ---- test_pull_request
    pr_pc,
    git,                \* the repository: diff outcome and the manifests at both revisions
    filenames,
    old_json,           \* the "packages" (or "repositories") of the file at old_rev
    new_json,           \* the same at current_rev
    modified_pkgs,
    added_pkgs,
    removed_pkgs,
    pkg_links,
    added_pkg_data,
    added_repositories,
    removed_repositories,
    todo,               \* what the running for loop has still to visit
    output,
    pr_errors,          \* the local "errors" flag of test_pull_request
    pr_warnings,        \* the local "warnings" flag of test_pull_request
    review_status,
    posted,             \* reviews sent to the review API
    pr_pending,         \* the value test_pull_request is returning while its finally runs
    pr_ret,             \* what test_pull_request returned ("" while running)
    \* ---- history of the run, for stating the claims
    h_errs,             \* number of error findings produced so far
    h_warns,            \* number of warning findings produced so far
    h_fail,             \* fetches that raised DownloaderException so far
    h_base              \* <<h_errs, h_warns>> when the running call of run_tests began

fsvars == <<fs_dirs, fs_files, conns, fetched>>

fmvars == <<fm_ret, fm_closed>>

zipvars == <<namelist, root_level_paths, last_path, skip_root_dir, idx, extracted>>

rtvars == <<rt_pc, spec, res, info, errors, warnings, tmpdir, rt_pending, rt_result>>

diffvars == <<git, filenames, old_json, new_json, modified_pkgs, added_pkgs, removed_pkgs, pkg_links,
              added_pkg_data, added_repositories, removed_repositories>>

prvars == <<pr_pc, todo, output, pr_errors, pr_warnings, review_status, posted, pr_pending,
            pr_ret>>

hvars == <<h_errs, h_warns, h_fail, h_base>>

vars == <<fsvars, fmvars, zipvars, rtvars, diffvars, prvars, hvars>>

(***************************************************************************)
(* The filesystem                                                          *)
(***************************************************************************)
\* os.path.exists(p)
Exists(p) == p \in fs_dirs \/ p \in fs_files

\* the directories above an absolute path
Ancestors(p) == {SliceTo(p, k) : k \in {j \in 1..(Len(p) - 1) : p[j + 1] = SEP}} \cup {<<SEP>>}

\* os.makedirs(p) and open(p, 'wb') fail when a regular file is in the way
Blocked(p) == \E a \in Ancestors(p) : a \in fs_files

\* the directories os.makedirs(p) leaves behind
MakeDirs(dirs, p) == dirs \cup Ancestors(p) \cup {p}

\* p is d or lies below d
Under(p, d) == p = d \/ StartsWith(p, d \o <<SEP>>)

\* shutil.rmtree(d)
RmTree(paths, d) == {p \in paths : ~Under(p, d)}

(***************************************************************************)
(* fetch_package_metadata                                                  *)
(***************************************************************************)
InRepo == " in the repository https://example.com"

MsgFailedSource == "Error fetching source in the repository https://example.com"

MsgBrokenPackage == "No \"details\" value for one of the packages in the repository https://example.com"

MsgProviderRaised == "provider raised"

\* clean_message: error.replace(' in the repository https://example.com', '')
clean_message(error) ==
    CASE error = MsgFailedSource -> "Error fetching source"
      [] error = MsgBrokenPackage -> "No \"details\" value for one of the packages"
      [] OTHER -> error

\* what the provider does with the one-package manifest
ProviderOutcomes == {"yields", "failed_source", "broken_package", "nothing", "raises", "raises_nonstr"}

FmTuple(ok, val) == [kind |-> "tuple", ok |-> ok, val |-> val]

FmNone == [kind |-> "none", ok |-> FALSE, val |-> [msg |-> ""]]

FmRaise == [kind |-> "exc", ok |-> FALSE, val |-> [msg |-> ""]]

FmIdle == [kind |-> "idle", ok |-> FALSE, val |-> [msg |-> ""]]

\* the value the try block of fetch_package_metadata leaves pending
FmTryResult(outcome, i) ==
    CASE outcome = "yields" -> FmTuple(TRUE, i)
      [] outcome = "failed_source" -> FmTuple(FALSE, [msg |-> clean_message(MsgFailedSource)])
      [] outcome = "broken_package" -> FmTuple(FALSE, [msg |-> clean_message(MsgBrokenPackage)])
      [] outcome = "nothing" -> FmNone
      [] outcome = "raises" -> FmTuple(FALSE, [msg |-> clean_message(MsgProviderRaised)])
      [] OTHER -> FmRaise

\* lines 207-231: the provider enumerates the synthetic manifest, opening
\* pooled connections as it goes; the return value (or exception) is pending
\* while the finally clause runs
FmTry(Infos) ==
    /\ rt_pc = "call"
    /\ \E outcome \in ProviderOutcomes, i \in Infos, opened \in 0..1 :
          /\ fm_ret' = FmTryResult(outcome, i)
          /\ conns' = conns + opened
    /\ fm_closed' = FALSE
    /\ rt_pc' = "fm_finally"
    /\ UNCHANGED <<fs_dirs, fs_files, fetched, zipvars, spec, res, info, errors, warnings,
                   tmpdir, rt_pending, rt_result, diffvars, prvars, hvars>>

close_all_connections == 0

\* lines 233-234
FmFinally ==
    /\ rt_pc = "fm_finally"
    /\ conns' = close_all_connections
    /\ fm_closed' = TRUE
    /\ rt_pc' = "unpack"
    /\ UNCHANGED <<fs_dirs, fs_files, fetched, fm_ret, zipvars, spec, res, info, errors,
                   warnings, tmpdir, rt_pending, rt_result, diffvars, prvars, hvars>>

(***************************************************************************)
(* run_tests: lines 58-98                                                  *)
(***************************************************************************)
\* line 63: not isinstance(name, str) or '/' in name or '\\' in name
InvalidName(name) == ~name.isstr \/ Contains(name.s, <<SEP>>) \/ Contains(name.s, <<BSL>>)

\* lines 58-64: unpack the metadata result, check the name
RtUnpack ==
    /\ rt_pc = "unpack"
    /\ IF fm_ret.kind # "tuple"
       THEN \* the exception of fetch_package_metadata propagates, or None cannot be unpacked
            /\ rt_pc' = "raised"
            /\ UNCHANGED <<res, info, rt_result, h_errs>>
       ELSE /\ res' = fm_ret.ok
            /\ info' = fm_ret.val
            /\ IF ~fm_ret.ok
               THEN /\ rt_result' = build_result(<<format_report(fm_ret.val.msg)>>, <<>>)
                    /\ h_errs' = h_errs + 1
                    /\ rt_pc' = "done"
               ELSE IF InvalidName(fm_ret.val.name)
               THEN /\ rt_result' = build_result(<<format_report(MsgInvalidName)>>, <<>>)
                    /\ h_errs' = h_errs + 1
                    /\ rt_pc' = "done"
               ELSE /\ rt_pc' = "rules"
                    /\ UNCHANGED <<rt_result, h_errs>>
    /\ UNCHANGED <<fsvars, fmvars, zipvars, spec, errors, warnings, tmpdir, rt_pending,
                   diffvars, prvars, h_warns, h_fail, h_base>>

\* line 85
UniversalPlatforms(platforms) ==
    ToSet(platforms) = {"windows", "osx", "linux"} \/ platforms = <<"*">>

\* lines 81-83: the errors of the loop over spec['releases']
RECURSIVE BranchErrors(_)
BranchErrors(releases) ==
    IF releases = <<>> THEN <<>>
    ELSE (IF Head(releases).branch THEN <<format_report(MsgBranch)>> ELSE <<>>)
         \o BranchErrors(Tail(releases))

\* lines 84-86: the warnings of the loop over spec['releases']
RECURSIVE PlatformWarnings(_)
PlatformWarnings(releases) ==
    IF releases = <<>> THEN <<>>
    ELSE (IF UniversalPlatforms(Head(releases).platforms)
          THEN <<format_report(MsgPlatforms)>> ELSE <<>>)
         \o PlatformWarnings(Tail(releases))

\* lines 72-73
SublimeErrors(inf) ==
    IF Contains(Lower(inf.name.s), Sublime) THEN <<RawStr(MsgSublime)>> ELSE <<>>

\* lines 75-86, the errors
ReleaseErrors(sp, inf) ==
    IF inf.releases = <<>>
    THEN IF sp.releases # <<>>
         THEN <<format_report(MsgNoReleasesFound)>>
         ELSE <<format_report(MsgNoReleasesSpecified)>>
    ELSE BranchErrors(sp.releases)

\* ReleaseWarnings, but the platform rule is evaluated for a record without
\* releases as well
ReleaseWarningsUnconditional(sp, inf) == PlatformWarnings(sp.releases)

\* lines 75-86, the warnings
ReleaseWarnings(sp, inf) ==
    IF inf.releases = <<>> THEN <<>> ELSE PlatformWarnings(sp.releases)

\* lines 87-88
ReadmeWarnings(inf) ==
    IF ~inf.readme.isstr THEN <<format_report(MsgReadme)>> ELSE <<>>

\* lines 69-88: the structural rules
RtRules ==
    /\ rt_pc = "rules"
    /\ errors' = SublimeErrors(info) \o ReleaseErrors(spec, info)
    /\ warnings' = ReleaseWarnings(spec, info) \o ReadmeWarnings(info)
    /\ h_errs' = h_errs + Len(errors')
    /\ h_warns' = h_warns + Len(warnings')
    /\ rt_pc' = "gate"
    /\ UNCHANGED <<fsvars, fmvars, zipvars, spec, res, info, tmpdir, rt_pending, rt_result,
                   diffvars, prvars, h_fail, h_base>>

\* SecureUrl, but plain http passes as well
SecureUrlAnyHttp(url) == url.isstr /\ (StartsWith(url.s, Https) \/ StartsWith(url.s, Http))

\* line 97: isinstance(url, str) and url.startswith('https://')
SecureUrl(url) == url.isstr /\ StartsWith(url.s, Https)

Pending(value) == [kind |-> "return", value |-> value]

PendingRaise == [kind |-> "raise", value |-> NoResult]

NoPending == [kind |-> "none", value |-> NoResult]

\* lines 90-98: nothing to fetch, or a primary URL that must not be fetched
RtGate ==
    /\ rt_pc = "gate"
    /\ IF info.releases = <<>>
       THEN /\ rt_pending' = Pending(build_result(errors, warnings))
            /\ rt_pc' = "finally"
            /\ UNCHANGED h_errs
       ELSE IF ~SecureUrl(info.releases[1].url)
       THEN /\ rt_pending' = Pending(build_result(<<format_report(MsgNotHttps)>>, <<>>))
            /\ rt_pc' = "finally"
            /\ h_errs' = h_errs + 1
       ELSE /\ rt_pc' = "mkdtemp"
            /\ UNCHANGED <<rt_pending, h_errs>>
    /\ UNCHANGED <<fsvars, fmvars, zipvars, spec, res, info, errors, warnings, tmpdir,
                   rt_result, diffvars, prvars, h_warns, h_fail, h_base>>

(***************************************************************************)
(* run_tests: lines 100-191                                                *)
(***************************************************************************)
PackageExt == <<".", "s", "u", "b", "l", "i", "m", "e", "-", "p", "a", "c", "k", "a", "g", "e">>

\* line 104
tmp_package_path == PathJoin(tmpdir, info.name.s \o PackageExt)

\* line 105
tmp_package_dir == PathJoin(tmpdir, info.name.s)

\* lines 100-106: tempfile.mkdtemp() and os.mkdir(tmp_package_dir)
RtMkdtemp ==
    /\ rt_pc = "mkdtemp"
    /\ tmpdir' = RunTmpDir
    /\ fs_dirs' = fs_dirs \cup {RunTmpDir, PathJoin(RunTmpDir, info.name.s)}
    /\ rt_pc' = "download"
    /\ UNCHANGED <<fs_files, conns, fetched, fmvars, zipvars, spec, res, info, errors,
                   warnings, rt_pending, rt_result, diffvars, prvars, hvars>>

\* lines 107-112: the package file is opened for writing, then one fetch of the
\* primary release URL, which succeeds or raises DownloaderException
RtDownload ==
    /\ rt_pc = "download"
    /\ fs_files' = fs_files \cup {tmp_package_path}
    /\ fetched' = Append(fetched, <<"fetching package", info.releases[1].url>>)
    /\ \E ok \in BOOLEAN :
          IF ok
          THEN /\ rt_pc' = "open_zip"
               /\ UNCHANGED <<errors, rt_pending, h_errs, h_fail>>
          ELSE /\ errors' = Append(errors, format_report(MsgDownload))
               /\ rt_pending' = Pending(build_result(errors', warnings))
               /\ h_errs' = h_errs + 1
               /\ h_fail' = h_fail + 1
               /\ rt_pc' = "finally"
    /\ UNCHANGED <<fs_dirs, conns, fmvars, zipvars, spec, res, info, warnings, tmpdir,
                   rt_result, diffvars, prvars, h_warns, h_base>>

\* line 114: zipfile.ZipFile(tmp_package_path) reads the directory of the
\* downloaded bytes, or raises BadZipFile when they are no zip file
RtOpenZip(Archives) ==
    /\ rt_pc = "open_zip"
    /\ \E valid \in BOOLEAN :
          IF valid
          THEN /\ \E a \in Archives : namelist' = a
               /\ root_level_paths' = <<>>
               /\ last_path' = NoneVal
               /\ idx' = 1
               /\ rt_pc' = "scan1"
               /\ UNCHANGED rt_pending
          ELSE /\ rt_pending' = PendingRaise
               /\ rt_pc' = "finally"
               /\ UNCHANGED <<namelist, root_level_paths, last_path, idx>>
    /\ UNCHANGED <<fsvars, fmvars, skip_root_dir, extracted, spec, res, info, errors,
                   warnings, tmpdir, rt_result, diffvars, prvars, hvars>>

\* line 126: path.find('/') in [len(path) - 1, -1]
IsRootLevel(path) == Find(path, SEP) \in {Len(path) - 1, -1}

\* line 129: path[0] == '/' or '../' in path
LooksUnsafe(path) == path[1] = SEP \/ Contains(path, <<".", ".", SEP>>)

\* lines 119-131: one iteration of the first loop over the entry names
RtScan1 ==
    /\ rt_pc = "scan1"
    /\ idx <= Len(namelist)
    /\ LET path == Replace(namelist[idx], BSL, SEP)
       IN  /\ last_path' = Str(path)
           /\ root_level_paths' =
                  IF IsRootLevel(path) THEN Append(root_level_paths, path) ELSE root_level_paths
           /\ IF LooksUnsafe(path)
              THEN /\ errors' = Append(errors, format_report_arg(MsgTraversal, path))
                   /\ rt_pending' = Pending(build_result(errors', warnings))
                   /\ h_errs' = h_errs + 1
                   /\ rt_pc' = "finally"
                   /\ UNCHANGED idx
              ELSE /\ idx' = idx + 1
                   /\ UNCHANGED <<errors, rt_pending, h_errs, rt_pc>>
    /\ UNCHANGED <<fsvars, fmvars, namelist, skip_root_dir, extracted, spec, res, info,
                   warnings, tmpdir, rt_result, diffvars, prvars, h_warns, h_fail, h_base>>

\* lines 133-134
RootLevelPaths(paths, last) ==
    IF last.isstr /\ last.s # <<>> /\ Len(paths) = 0
    THEN <<SliceTo(last.s, Find(last.s, SEP) + 1)>>
    ELSE paths

\* lines 139-140
SkipRootDir(paths) == Len(paths) = 1 /\ EndsWith(paths[1], <<SEP>>)

\* lines 133-140: after the first loop
RtRoot ==
    /\ rt_pc = "scan1"
    /\ idx > Len(namelist)
    /\ root_level_paths' = RootLevelPaths(root_level_paths, last_path)
    /\ skip_root_dir' = SkipRootDir(root_level_paths')
    /\ idx' = 1
    /\ rt_pc' = "scan2"
    /\ UNCHANGED <<fsvars, fmvars, namelist, last_path, extracted, spec, res, info, errors,
                   warnings, tmpdir, rt_pending, rt_result, diffvars, prvars, hvars>>

\* lines 143-155: where an entry is to be written
Dest(path) ==
    LET norm == Replace(path, BSL, SEP)
        rel == IF skip_root_dir THEN SliceFrom(norm, Len(root_level_paths[1])) ELSE norm
    IN  AbsPath(PathJoin(tmp_package_dir, rel))

\* line 157: dest.startswith(tmp_package_dir)
Contained(dest) == StartsWith(dest, tmp_package_dir)

\* lines 142-169: one iteration of the extracting loop
RtScan2 ==
    /\ rt_pc = "scan2"
    /\ idx <= Len(namelist)
    /\ LET path == namelist[idx]
           dest == Dest(path)
           dest_dir == DirName(dest)
       IN  IF ~Contained(dest)
           THEN /\ errors' = Append(errors, format_report_arg(MsgTraversal, path))
                /\ rt_pending' = Pending(build_result(errors', warnings))
                /\ h_errs' = h_errs + 1
                /\ rt_pc' = "finally"
                /\ UNCHANGED <<fs_dirs, fs_files, idx, extracted>>
           ELSE IF EndsWith(path, <<SEP>>)
           THEN IF Exists(dest)
                THEN /\ idx' = idx + 1
                     /\ extracted' = Append(extracted, dest)
                     /\ UNCHANGED <<fs_dirs, fs_files, errors, rt_pending, h_errs, rt_pc>>
                ELSE IF Blocked(dest)
                THEN \* os.makedirs raises: a regular file is in the way
                     /\ rt_pending' = PendingRaise
                     /\ rt_pc' = "finally"
                     /\ UNCHANGED <<fs_dirs, fs_files, idx, extracted, errors, h_errs>>
                ELSE /\ fs_dirs' = MakeDirs(fs_dirs, dest)
                     /\ idx' = idx + 1
                     /\ extracted' = Append(extracted, dest)
                     /\ UNCHANGED <<fs_files, errors, rt_pending, h_errs, rt_pc>>
           ELSE IF Blocked(dest) \/ dest \in fs_dirs
           THEN \* os.makedirs(dest_dir) or open(dest, 'wb') raises
                /\ rt_pending' = PendingRaise
                /\ rt_pc' = "finally"
                /\ UNCHANGED <<fs_dirs, fs_files, idx, extracted, errors, h_errs>>
           ELSE /\ fs_dirs' = IF Exists(dest_dir) THEN fs_dirs ELSE MakeDirs(fs_dirs, dest_dir)
                /\ fs_files' = fs_files \cup {dest}
                /\ idx' = idx + 1
                /\ extracted' = Append(extracted, dest)
                /\ UNCHANGED <<errors, rt_pending, h_errs, rt_pc>>
    /\ UNCHANGED <<conns, fetched, fmvars, namelist, root_level_paths, last_path,
                   skip_root_dir, spec, res, info, warnings, tmpdir, rt_result, diffvars,
                   prvars, h_warns, h_fail, h_base>>

\* line 171: the extracting loop is over
RtExtracted ==
    /\ rt_pc = "scan2"
    /\ idx > Len(namelist)
    /\ idx' = 1
    /\ rt_pc' = "checkers"
    /\ UNCHANGED <<fsvars, fmvars, namelist, root_level_paths, last_path, skip_root_dir,
                   extracted, spec, res, info, errors, warnings, tmpdir, rt_pending,
                   rt_result, diffvars, prvars, hvars>>

\* what one checker's perform_check() leaves in .failures and .warnings, or
\* that it raised
CheckerOutcomes == {"clean", "failure", "warning", "raises"}

CheckerReport == [message |-> "checker report", details |-> <<"detail">>]

\* lines 172-185: one checker
RtChecker ==
    /\ rt_pc = "checkers"
    /\ idx <= NumCheckers
    /\ \E o \in CheckerOutcomes :
          /\ errors' = IF o = "failure"
                       THEN Append(errors, format_report_obj(CheckerReport)) ELSE errors
          /\ warnings' = IF o = "warning"
                         THEN Append(warnings, format_report_obj(CheckerReport)) ELSE warnings
          /\ h_errs' = IF o = "failure" THEN h_errs + 1 ELSE h_errs
          /\ h_warns' = IF o = "warning" THEN h_warns + 1 ELSE h_warns
          /\ IF o = "raises"
             THEN rt_pending' = PendingRaise /\ rt_pc' = "finally" /\ UNCHANGED idx
             ELSE idx' = idx + 1 /\ UNCHANGED <<rt_pending, rt_pc>>
    /\ UNCHANGED <<fsvars, fmvars, namelist, root_level_paths, last_path, skip_root_dir,
                   extracted, spec, res, info, tmpdir, rt_result, diffvars, prvars, h_fail, h_base>>

\* line 187
RtReturn ==
    /\ rt_pc = "checkers"
    /\ idx > NumCheckers
    /\ rt_pending' = Pending(build_result(errors, warnings))
    /\ rt_pc' = "finally"
    /\ UNCHANGED <<fsvars, fmvars, zipvars, spec, res, info, errors, warnings, tmpdir,
                   rt_result, diffvars, prvars, hvars>>

\* Cleanup, but nothing is removed
CleanupSkipped(paths, dir) == paths

\* lines 190-191: if tmpdir and os.path.exists(tmpdir): shutil.rmtree(tmpdir)
Cleanup(paths, dir) == IF dir # NoPath /\ Exists(dir) THEN RmTree(paths, dir) ELSE paths

\* lines 189-191: the finally clause, then the pending return or raise
RtFinally ==
    /\ rt_pc = "finally"
    /\ fs_dirs' = Cleanup(fs_dirs, tmpdir)
    /\ fs_files' = Cleanup(fs_files, tmpdir)
    /\ IF rt_pending.kind = "return"
       THEN rt_result' = rt_pending.value /\ rt_pc' = "done"
       ELSE rt_pc' = "raised" /\ UNCHANGED rt_result
    /\ rt_pending' = NoPending
    /\ UNCHANGED <<conns, fetched, fmvars, zipvars, spec, res, info, errors, warnings, tmpdir,
                   diffvars, prvars, hvars>>

\* the steps of one call of run_tests
RunTestsStep(Infos, Archives) ==
    \/ FmTry(Infos)
    \/ FmFinally
    \/ RtUnpack
    \/ RtRules
    \/ RtGate
    \/ RtMkdtemp
    \/ RtDownload
    \/ RtOpenZip(Archives)
    \/ RtScan1
    \/ RtRoot
    \/ RtScan2
    \/ RtExtracted
    \/ RtChecker
    \/ RtReturn
    \/ RtFinally

(***************************************************************************)
(* test_pull_request: lines 297-370, the Revision Differ                   *)
(***************************************************************************)
\* os.path.basename(p)
BaseName(p) == SliceFrom(p, RFind(p, SEP) + 1)

\* lines 250-254; a key that is absent is the empty string here
package_name(data) == IF data.name # <<>> THEN data.name ELSE BaseName(data.details)

\* filename.endswith('.json'), on the file names the model uses
JsonNames == {"channel.json", "repository.json", "repository/a.json", "repository/ab.json",
              "package.json"}

\* lines 321-322: re.match(r'repository/(\w|0-9)\.json$', filename), repository.json
\* or channel.json, on the file names the model uses
ManifestNames == {"channel.json", "repository.json", "repository/a.json"}

\* lines 310-330: the loop over the lines of git diff --name-status; err is
\* the message of the early return it takes, "" when it takes none
RECURSIVE ScanDiff(_, _)
ScanDiff(lines, acc) ==
    IF lines = <<>> THEN [err |-> "", files |-> acc]
    ELSE LET line == Head(lines)
         IN  IF line.parts # 2
             THEN [err |-> "git diff output included a line without status and filename",
                   files |-> acc]
             ELSE IF line.filename \notin JsonNames \/ line.filename \notin ManifestNames
             THEN ScanDiff(Tail(lines), acc)
             ELSE IF line.status # "M"
             THEN [err |-> "Unsure how to test a change that adds or removes a file, aborting",
                   files |-> acc]
             ELSE ScanDiff(Tail(lines), Append(acc, line.filename))

\* lines 297-342: the temporary directory, git diff, the changed manifests
PrDiff ==
    /\ pr_pc = "start"
    /\ fs_dirs' = fs_dirs \cup {PrTmpDir}
    /\ IF git.code # 0
       THEN /\ pr_pending' = "Unable to diff"
            /\ pr_pc' = "pr_finally"
            /\ UNCHANGED <<filenames, todo>>
       ELSE LET scan == ScanDiff(git.changed, <<>>)
            IN  IF scan.err # ""
                THEN /\ pr_pending' = scan.err
                     /\ pr_pc' = "pr_finally"
                     /\ UNCHANGED <<filenames, todo>>
                ELSE /\ filenames' = scan.files
                     /\ todo' = scan.files
                     /\ pr_pc' = "files"
                     /\ UNCHANGED pr_pending
    /\ UNCHANGED <<fs_files, conns, fetched, fmvars, zipvars, rtvars, git, old_json, new_json,
                   modified_pkgs, added_pkgs, removed_pkgs, pkg_links, added_pkg_data,
                   added_repositories, removed_repositories, output, pr_errors, pr_warnings,
                   review_status, posted, pr_ret, hvars>>

\* every order in which a for loop may visit the set S
Orders(S) == {f \in [1..Cardinality(S) -> S] : \A i, j \in 1..Cardinality(S) : f[i] = f[j] => i = j}

\* d[k] = v
MapPut(d, k, v) == [x \in (DOMAIN d) \cup {k} |-> IF x = k THEN v ELSE d[x]]

\* json.dumps(p): the serialized entry; entries are equal as text exactly
\* when their keys and values are
json_dumps(p) == <<"name", p.name, "details", p.details, "releases", p.releases>>

\* lines 354-355: the entries only in xs, as the packages they serialize
OnlyIn(xs, ys) ==
    {xs[i] : i \in {j \in 1..Len(xs) : json_dumps(xs[j]) \notin {json_dumps(ys[k]) : k \in 1..Len(ys)}}}

\* lines 359-360 and 369-370: the names of a list of entries
RECURSIVE NamesOf(_)
NamesOf(entries) ==
    IF entries = <<>> THEN {} ELSE {package_name(Head(entries))} \cup NamesOf(Tail(entries))

\* lines 362-367: the added entries, in the order the loop visits them
RECURSIVE AddEntries(_, _)
AddEntries(entries, st) ==
    IF entries = <<>> THEN st
    ELSE LET e == Head(entries)
             n == package_name(e)
         IN  AddEntries(Tail(entries),
                        [pkgs |-> st.pkgs \cup {n},
                         data |-> MapPut(st.data, n, e),
                         links |-> IF e.details # <<>> THEN MapPut(st.links, n, e.details)
                                   ELSE st.links])

\* Reconcile, but a manifest that lost and gained unequal numbers of entries
\* has its new-only entries classified as added as well
ReconcileAlsoAdds(del, add, st) ==
    IF Len(del) = Len(add)
    THEN [st EXCEPT !.modified = st.modified \cup NamesOf(add)]
    ELSE LET r == AddEntries(add, [pkgs |-> st.added, data |-> st.data, links |-> st.links])
         IN  [st EXCEPT !.added = r.pkgs, !.data = r.data, !.links = r.links,
                        !.removed = st.removed \cup NamesOf(del)]

\* lines 358-370: what one package manifest does to the three name sets;
\* del and add list the old-only and the new-only entries in visiting order
Reconcile(del, add, st) ==
    IF Len(del) = Len(add)
    THEN [st EXCEPT !.modified = st.modified \cup NamesOf(add)]
    ELSE IF Len(del) = 0
    THEN LET r == AddEntries(add, [pkgs |-> st.added, data |-> st.data, links |-> st.links])
         IN  [st EXCEPT !.added = r.pkgs, !.data = r.data, !.links = r.links]
    ELSE [st EXCEPT !.removed = st.removed \cup NamesOf(del)]

\* lines 343-370: one changed manifest file
PrFile(PkgLists, RepoLists) ==
    /\ pr_pc = "files"
    /\ todo # <<>>
    /\ todo' = Tail(todo)
    /\ IF Head(todo) = "channel.json"
       THEN /\ \E o \in RepoLists, n \in RepoLists : old_json' = o /\ new_json' = n
            /\ removed_repositories' = ToSet(old_json') \ ToSet(new_json')
            /\ added_repositories' = ToSet(new_json') \ ToSet(old_json')
            /\ UNCHANGED <<modified_pkgs, added_pkgs, removed_pkgs, pkg_links, added_pkg_data>>
       ELSE /\ \E o \in PkgLists, n \in PkgLists : old_json' = o /\ new_json' = n
            /\ \E del \in Orders(OnlyIn(old_json', new_json')),
                  add \in Orders(OnlyIn(new_json', old_json')) :
                  LET r == Reconcile(del, add,
                                     [modified |-> modified_pkgs, added |-> added_pkgs,
                                      removed |-> removed_pkgs, data |-> added_pkg_data,
                                      links |-> pkg_links])
                  IN  /\ modified_pkgs' = r.modified
                      /\ added_pkgs' = r.added
                      /\ removed_pkgs' = r.removed
                      /\ added_pkg_data' = r.data
                      /\ pkg_links' = r.links
            /\ UNCHANGED <<added_repositories, removed_repositories>>
    /\ UNCHANGED <<fsvars, fmvars, zipvars, rtvars, git, filenames, pr_pc, output, pr_errors,
                   pr_warnings, review_status, posted, pr_pending, pr_ret, hvars>>

(***************************************************************************)
(* test_pull_request: lines 372-556, the report, the packages, the review  *)
(***************************************************************************)
\* one line of the report; arg is the name or URL interpolated with %, n a count
Line(tag, msg, arg) == [tag |-> tag, msg |-> msg, arg |-> arg, n |-> 0]

Blank == Line("", "", <<>>)

\* sorted(S), for the names and URLs the model uses
SortOrder ==
    <<<<"A">>, <<"B">>, <<"f", "t", "p", ":", SEP, SEP, "r">>, Http \o <<"q">>, Https \o <<"r">>>>

sorted(S) == SelectSeq(SortOrder, LAMBDA x : x \in S)

\* a heading and one line per item, after a blank line when output is not empty
Section(out, title, items) ==
    IF items = <<>> THEN out
    ELSE out \o (IF out # <<>> THEN <<Blank>> ELSE <<>>) \o <<Line(title, "", <<>>)>>
         \o [i \in 1..Len(items) |-> Line("item", "", items[i])]

\* lines 372-386: the repositories removed and added; then the loop over the
\* added repositories starts, in the order the set yields them
PrRepoList ==
    /\ pr_pc = "files"
    /\ todo = <<>>
    /\ output' = Section(Section(<<>>, "Repositories removed:", sorted(removed_repositories)),
                         "Repositories added:", sorted(added_repositories))
    /\ todo' \in Orders(added_repositories)
    /\ old_json' = <<>>
    /\ new_json' = <<>>
    /\ pr_pc' = "repos"
    /\ UNCHANGED <<fsvars, fmvars, zipvars, rtvars, git, filenames, modified_pkgs, added_pkgs,
                   removed_pkgs, pkg_links, added_pkg_data, added_repositories,
                   removed_repositories, pr_errors, pr_warnings, review_status, posted,
                   pr_pending, pr_ret, hvars>>

MsgNeedHttps == "External repositories added to the default channel must be served over HTTPS"

\* what fetching an added repository's manifest may give
Responses(PkgLists) ==
    {[kind |-> k, missing |-> <<>>, packages |-> <<>>] :
        k \in {"fetch_fail", "not_utf8", "not_json", "bad_schema"}}
    \cup {[kind |-> "missing", missing |-> m, packages |-> <<>>] :
            m \in {<<"schema_version">>, <<"packages">>, <<"schema_version", "packages">>}}
    \cup {[kind |-> "ok", missing |-> <<>>, packages |-> l] : l \in PkgLists}

\* lines 401-435: the ERROR lines of a response that is not a usable manifest
ResponseErrors(r) ==
    CASE r.kind = "fetch_fail" -> <<Line("ERROR", MsgDownload, <<>>)>>
      [] r.kind = "not_utf8" -> <<Line("ERROR", "Unable to decode JSON as UTF-8", <<>>)>>
      [] r.kind = "not_json" -> <<Line("ERROR", "Unable to parse JSON", <<>>)>>
      [] r.kind = "missing" ->
            [i \in 1..Len(r.missing) |-> Line("ERROR", "Top-level key is missing", <<>>)]
      [] r.kind = "bad_schema" -> <<Line("ERROR", "\"schema_version\" must be \"3.0.0\"", <<>>)>>
      [] OTHER -> <<>>

\* lines 437-442: the packages of an external manifest, in list order
RECURSIVE FoldPackages(_, _)
FoldPackages(entries, st) ==
    IF entries = <<>> THEN st
    ELSE LET e == Head(entries)
             n == package_name(e)
         IN  FoldPackages(Tail(entries),
                          [pkgs |-> st.pkgs \cup {n}, data |-> MapPut(st.data, n, e)])

\* HasScheme, but only https counts
HasSchemeHttpsOnly(repo) == StartsWith(repo, Https)

\* line 390
HasScheme(repo) == StartsWith(repo, Http) \/ StartsWith(repo, Https)

\* lines 389-443: one added repository
PrRepo(PkgLists) ==
    /\ pr_pc = "repos"
    /\ todo # <<>>
    /\ todo' = Tail(todo)
    /\ LET repo == Head(todo)
           insecure == StartsWith(repo, Http)
           head == <<Blank, Line("Processing repository", "", repo)>>
                   \o (IF insecure THEN <<Line("ERROR", MsgNeedHttps, <<>>)>> ELSE <<>>)
       IN  IF ~HasScheme(repo)
           THEN UNCHANGED <<fetched, added_pkgs, added_pkg_data, output, pr_errors, h_errs,
                            h_fail>>
           ELSE /\ fetched' = Append(fetched, <<"fetching repository", Str(repo)>>)
                /\ \E r \in Responses(PkgLists) :
                      LET errs == ResponseErrors(r)
                          st == FoldPackages(r.packages,
                                             [pkgs |-> added_pkgs, data |-> added_pkg_data])
                      IN  /\ pr_errors' = (pr_errors \/ insecure \/ r.kind # "ok")
                          /\ h_errs' = h_errs + (IF insecure THEN 1 ELSE 0) + Len(errs)
                          /\ h_fail' = h_fail + (IF r.kind = "fetch_fail" THEN 1 ELSE 0)
                          /\ added_pkgs' = st.pkgs
                          /\ added_pkg_data' = st.data
                          /\ output' = output \o head \o errs \o
                                 (IF r.kind = "ok"
                                  THEN <<[Line("Found packages", "", <<>>)
                                             EXCEPT !.n = Len(r.packages)]>>
                                  ELSE <<>>)
    /\ UNCHANGED <<fs_dirs, fs_files, conns, fmvars, zipvars, rtvars, git, filenames, old_json,
                   new_json, modified_pkgs, removed_pkgs, pkg_links, added_repositories,
                   removed_repositories, pr_pc, pr_warnings, review_status, posted,
                   pr_pending, pr_ret, h_warns, h_base>>

\* lines 445-466: the packages removed, modified and added; then the loop over
\* sorted(added_pkgs) starts
PrPkgList ==
    /\ pr_pc = "repos"
    /\ todo = <<>>
    /\ output' = Section(Section(Section(output, "Packages removed:", sorted(removed_pkgs)),
                                 "Packages modified:", sorted(modified_pkgs)),
                         "Packages added:", sorted(added_pkgs))
    /\ todo' = sorted(added_pkgs)
    /\ pr_pc' = "packages"
    /\ UNCHANGED <<fsvars, fmvars, zipvars, rtvars, diffvars, pr_errors, pr_warnings,
                   review_status, posted, pr_pending, pr_ret, hvars>>

\* lines 467-471: the next added package is handed to run_tests
PrCallRunTests ==
    /\ pr_pc = "packages"
    /\ todo # <<>>
    /\ output' = output \o <<Blank, Line("Processing package", "", Head(todo))>>
    /\ spec' = added_pkg_data[Head(todo)]
    /\ rt_pc' = "call"
    /\ rt_result' = NoResult
    /\ h_base' = <<h_errs, h_warns>>
    /\ pr_pc' = "in_run_tests"
    /\ UNCHANGED <<fsvars, fmvars, zipvars, res, info, errors, warnings, tmpdir, rt_pending,
                   diffvars, todo, pr_errors, pr_warnings, review_status, posted, pr_pending,
                   pr_ret, h_errs, h_warns, h_fail>>

\* lines 477-480 and 483-486: the lines of the reports before the first one
\* that is no dict
RECURSIVE ReportLines(_, _)
ReportLines(tag, reports) ==
    IF reports = <<>> \/ ~Head(reports).isdict THEN <<>>
    ELSE <<Line(tag, Head(reports).message, Head(reports).arg)>>
         \o [i \in 1..Len(Head(reports).details) |-> Line("detail", Head(reports).details[i], <<>>)]
         \o ReportLines(tag, Tail(reports))

\* report['message'] raises TypeError when report is a str
Unsubscriptable(reports) == \E i \in 1..Len(reports) : ~reports[i].isdict

\* lines 471-486: the result of run_tests goes into the report
PrCollect ==
    /\ pr_pc = "in_run_tests"
    /\ rt_pc \in {"done", "raised"}
    /\ rt_pc' = "idle"
    /\ LET errs == rt_result.details.errors
           warns == rt_result.details.warnings
       IN  IF rt_pc = "raised"
           THEN /\ pr_pending' = "raise"
                /\ pr_pc' = "pr_finally"
                /\ UNCHANGED <<todo, output, pr_errors, pr_warnings>>
           ELSE IF rt_result.result = "success"
           THEN /\ output' = Append(output, Line("All checks passed", "", <<>>))
                /\ todo' = Tail(todo)
                /\ pr_pc' = "packages"
                /\ UNCHANGED <<pr_errors, pr_warnings, pr_pending>>
           ELSE IF Unsubscriptable(errs)
           THEN /\ pr_errors' = TRUE
                /\ output' = output \o ReportLines("ERROR", errs)
                /\ pr_pending' = "raise"
                /\ pr_pc' = "pr_finally"
                /\ UNCHANGED <<todo, pr_warnings>>
           ELSE /\ pr_errors' = (pr_errors \/ errs # <<>>)
                /\ pr_warnings' = (pr_warnings \/ warns # <<>>)
                /\ output' = output \o ReportLines("ERROR", errs) \o ReportLines("WARNING", warns)
                /\ IF Unsubscriptable(warns)
                   THEN pr_pending' = "raise" /\ pr_pc' = "pr_finally" /\ UNCHANGED todo
                   ELSE todo' = Tail(todo) /\ pr_pc' = "packages" /\ UNCHANGED pr_pending
    \* the frame of the finished call is gone
    /\ fm_ret' = FmIdle
    /\ fm_closed' = FALSE
    /\ res' = FALSE
    /\ info' = [msg |-> ""]
    /\ errors' = <<>>
    /\ warnings' = <<>>
    /\ tmpdir' = NoPath
    /\ namelist' = <<>>
    /\ root_level_paths' = <<>>
    /\ last_path' = NoneVal
    /\ skip_root_dir' = FALSE
    /\ idx' = 1
    /\ extracted' = <<>>
    /\ UNCHANGED <<fsvars, spec, rt_pending, rt_result, diffvars, review_status, posted,
                   pr_ret, hvars>>

\* lines 488-497
Verdict(errs, warns) == IF errs THEN "ERROR" ELSE IF warns THEN "WARNING" ELSE "SUCCESS"

PrVerdict ==
    /\ pr_pc = "packages"
    /\ todo = <<>>
    /\ review_status' = Verdict(pr_errors, pr_warnings)
    /\ pr_pc' = "publish"
    /\ UNCHANGED <<fsvars, fmvars, zipvars, rtvars, diffvars, todo, output, pr_errors,
                   pr_warnings, posted, pr_pending, pr_ret, hvars>>

\* lines 499-520: the body of the review
Comment ==
    [status |-> review_status,
     links |-> IF Cardinality(DOMAIN pkg_links) = 1
               THEN [i \in 1..1 |-> LET n == CHOOSE x \in DOMAIN pkg_links : TRUE
                                    IN  <<n, pkg_links[n]>>]
               ELSE LET names == SelectSeq(sorted(added_pkgs), LAMBDA x : x \in DOMAIN pkg_links)
                    IN  [i \in 1..Len(names) |-> <<names[i], pkg_links[names[i]]>>],
     help |-> (pr_errors \/ pr_warnings),
     output |-> output]

\* how the review API answers the POST
PublishOutcomes == {"200", "non200", "URLError", "HTTPError"}

\* lines 522-552: the review is posted, always as REQUEST_CHANGES
PrPublish ==
    /\ pr_pc = "publish"
    /\ posted' = Append(posted, [body |-> Comment, event |-> "REQUEST_CHANGES"])
    /\ \E o \in PublishOutcomes :
          pr_pending' = IF o = "200" THEN "completed" ELSE "Error posting review to PR"
    /\ pr_pc' = "pr_finally"
    /\ UNCHANGED <<fsvars, fmvars, zipvars, rtvars, diffvars, todo, output, pr_errors,
                   pr_warnings, review_status, pr_ret, hvars>>

\* lines 554-556: the finally clause, then the pending return or raise
PrFinally ==
    /\ pr_pc = "pr_finally"
    /\ fs_dirs' = Cleanup(fs_dirs, PrTmpDir)
    /\ fs_files' = Cleanup(fs_files, PrTmpDir)
    /\ IF pr_pending = "raise"
       THEN pr_pc' = "raised" /\ UNCHANGED pr_ret
       ELSE pr_pc' = "done" /\ pr_ret' = pr_pending
    /\ pr_pending' = ""
    /\ UNCHANGED <<conns, fetched, fmvars, zipvars, rtvars, diffvars, todo, output, pr_errors,
                   pr_warnings, review_status, posted, hvars>>

(***************************************************************************)
(* Inputs                                                                  *)
(***************************************************************************)
\* sequences over S of length 0..n
SeqsUpTo(S, n) == UNION {[1..k -> S] : k \in 0..n}

PlatformLists == {<<>>, <<"*">>, <<"windows", "osx", "linux">>, <<"linux">>}

\* one release source of a package spec: "branch" tells that the key is present
ReleaseSources == [branch : BOOLEAN, platforms : PlatformLists]

SpecReleases == SeqsUpTo(ReleaseSources, MaxReleases)

\* package names a metadata record may carry
RecordNames ==
    {Str(<<"P">>), Str(<<"S", "u", "b", "l", "i", "m", "e", "P">>), Str(<<"a", SEP, "b">>),
     Str(<<"a", BSL, "b">>), NoneVal}

\* primary release URLs a metadata record may carry
RecordUrls ==
    {Str(Https \o <<"x">>), Str(Http \o <<"x">>), NoneVal, [isstr |-> FALSE, s |-> <<"4", "2">>]}

RecordReadmes == {NoneVal, Str(<<"r">>)}

\* the records the metadata provider may yield
AllInfos ==
    [name : RecordNames,
     releases : {<<>>} \cup {<<[url |-> u]>> : u \in RecordUrls},
     readme : RecordReadmes]

\* zip entry names
EntryNames ==
    {<<"a">>,
     <<"a", SEP>>,
     <<"a", SEP, "b">>,
     <<"b", SEP>>,
     <<"b", SEP, "a">>,
     <<"a", BSL, "b">>,
     <<".", ".", SEP, "a">>,
     <<".", ".", BSL, "a">>,
     <<SEP, "a">>,
     <<".", ".">>,
     <<"a", SEP, ".", ".">>,
     <<"a", SEP, SEP, "b">>,
     <<"a", SEP, SEP, "T", SEP, "P", "b", SEP, "a">>}

AllArchives == SeqsUpTo(EntryNames, MaxEntries)

\* a clean archive, one rejected by the first loop, one rejected by the second
FewArchives == {<<<<"a">>>>, <<<<".", ".", SEP, "a">>>>, <<<<".", ".">>>>}

IdleInfo == [msg |-> ""]

NoGit == [code |-> 0, changed |-> <<>>]

NoMap == <<>>

\* the locals of test_pull_request, before line 301
PrLocals ==
    /\ filenames = <<>>
    /\ old_json = <<>>
    /\ new_json = <<>>
    /\ modified_pkgs = {}
    /\ added_pkgs = {}
    /\ removed_pkgs = {}
    /\ pkg_links = NoMap
    /\ added_pkg_data = NoMap
    /\ added_repositories = {}
    /\ removed_repositories = {}
    /\ todo = <<>>
    /\ output = <<>>
    /\ pr_errors = FALSE
    /\ pr_warnings = FALSE
    /\ review_status = "None"
    /\ posted = <<>>
    /\ pr_pending = ""
    /\ pr_ret = ""

\* test_pull_request is not running
PrIdle ==
    /\ PrLocals
    /\ pr_pc = "idle"
    /\ git = NoGit

\* the locals of run_tests and fetch_package_metadata, before a call
RtIdle ==
    /\ fm_ret = FmIdle
    /\ fm_closed = FALSE
    /\ res = FALSE
    /\ info = IdleInfo
    /\ errors = <<>>
    /\ warnings = <<>>
    /\ tmpdir = NoPath
    /\ namelist = <<>>
    /\ root_level_paths = <<>>
    /\ last_path = NoneVal
    /\ skip_root_dir = FALSE
    /\ idx = 1
    /\ extracted = <<>>
    /\ rt_pending = NoPending
    /\ rt_result = NoResult

WorldInit ==
    /\ fs_dirs = {<<SEP>>}
    /\ fs_files = {}
    /\ conns = 0
    /\ fetched = <<>>
    /\ h_errs = 0
    /\ h_warns = 0
    /\ h_fail = 0
    /\ h_base = <<0, 0>>

(***************************************************************************)
(* SpecRun: one call run_tests(spec)                                       *)
(***************************************************************************)
InitRun ==
    /\ WorldInit
    /\ PrIdle
    /\ RtIdle
    /\ rt_pc = "call"
    /\ spec \in [releases : SpecReleases]

NextRun == RunTestsStep(AllInfos, FewArchives)

SpecRun == InitRun /\ [][NextRun]_vars

(***************************************************************************)
(* SpecExtract: run_tests from the opening of a downloaded archive         *)
(***************************************************************************)
ExtractInfo == [name |-> Str(<<"P">>), releases |-> <<[url |-> Str(Https \o <<"x">>)]>>,
                readme |-> Str(<<"r">>)]

InitExtract ==
    /\ PrIdle
    /\ fs_dirs = {<<SEP>>, RunTmpDir, PathJoin(RunTmpDir, <<"P">>)}
    /\ fs_files = {PathJoin(RunTmpDir, <<"P">> \o PackageExt)}
    /\ conns = 0
    /\ fetched = <<<<"fetching package", Str(Https \o <<"x">>)>>>>
    /\ h_errs = 0
    /\ h_warns = 0
    /\ h_fail = 0
    /\ h_base = <<0, 0>>
    /\ fm_ret = FmTuple(TRUE, ExtractInfo)
    /\ fm_closed = TRUE
    /\ res = TRUE
    /\ info = ExtractInfo
    /\ errors = <<>>
    /\ warnings = <<>>
    /\ tmpdir = RunTmpDir
    /\ namelist = <<>>
    /\ root_level_paths = <<>>
    /\ last_path = NoneVal
    /\ skip_root_dir = FALSE
    /\ idx = 1
    /\ extracted = <<>>
    /\ rt_pending = NoPending
    /\ rt_result = NoResult
    /\ rt_pc = "open_zip"
    /\ spec = [releases |-> <<>>]

NextExtract ==
    \/ RtOpenZip(AllArchives)
    \/ RtScan1
    \/ RtRoot
    \/ RtScan2
    \/ RtExtracted
    \/ RtChecker
    \/ RtReturn
    \/ RtFinally

SpecExtract == InitExtract /\ [][NextExtract]_vars

(***************************************************************************)
(* Manifests, for SpecDiff and Spec                                        *)
(***************************************************************************)
TagsRelease == [branch |-> FALSE, platforms |-> <<>>]

PkgA == [name |-> <<"A">>, details |-> <<>>, releases |-> <<>>]

\* package A, edited
PkgA2 == [name |-> <<"A">>, details |-> <<>>, releases |-> <<TagsRelease>>]

\* package A, named by the basename of its details URL
PkgDA == [name |-> <<>>, details |-> Https \o <<"g", SEP, "A">>, releases |-> <<TagsRelease>>]

PkgB == [name |-> <<"B">>, details |-> Https \o <<"g", SEP, "B">>, releases |-> <<TagsRelease>>]

Entries == {PkgA, PkgDA, PkgB}

\* package lists without a repeated entry
AllPkgLists ==
    {l \in SeqsUpTo(Entries, MaxPackages) : \A i, j \in 1..Len(l) : l[i] = l[j] => i = j}

FewPkgLists == {<<>>, <<PkgA>>, <<PkgA2>>, <<PkgA, PkgB>>}

RepoUrls == {Https \o <<"r">>, Http \o <<"q">>, <<"f", "t", "p", ":", SEP, SEP, "r">>}

RepoLists == {<<>>} \cup {<<u>> : u \in RepoUrls} \cup {<<Https \o <<"r">>, Http \o <<"q">>>>}

DiffLine(status, filename) == [parts |-> 2, status |-> status, filename |-> filename]

\* the metadata records explored below test_pull_request
FewInfos ==
    {[name |-> Str(<<"P">>), releases |-> <<[url |-> Str(Https \o <<"x">>)]>>,
      readme |-> Str(<<"r">>)],
     [name |-> Str(<<"S", "u", "b", "l", "i", "m", "e", "P">>),
      releases |-> <<[url |-> Str(Https \o <<"x">>)]>>, readme |-> NoneVal],
     [name |-> Str(<<"P">>), releases |-> <<>>, readme |-> NoneVal],
     [name |-> Str(<<"P">>), releases |-> <<[url |-> Str(Http \o <<"x">>)]>>,
      readme |-> NoneVal]}

\* the archives explored below test_pull_request
RunArchives == {<<<<"a">>>>, <<<<".", ".">>>>}

(***************************************************************************)
(* SpecDiff: test_pull_request from the loop over the changed manifests    *)
(* to the start of the loop over the added packages                        *)
(***************************************************************************)
ChangedManifests ==
    {<<"repository.json">>,
     <<"repository.json", "repository/a.json">>,
     <<"channel.json", "repository.json">>,
     <<"repository/a.json", "channel.json">>}

InitDiff ==
    /\ RtIdle
    /\ rt_pc = "idle"
    /\ spec = [releases |-> <<>>]
    /\ fs_dirs = {<<SEP>>, PrTmpDir}
    /\ fs_files = {}
    /\ conns = 0
    /\ fetched = <<>>
    /\ h_errs = 0
    /\ h_warns = 0
    /\ h_fail = 0
    /\ h_base = <<0, 0>>
    /\ filenames \in ChangedManifests
    /\ git = [code |-> 0, changed |-> [i \in 1..Len(filenames) |-> DiffLine("M", filenames[i])]]
    /\ todo = filenames
    /\ pr_pc = "files"
    /\ old_json = <<>>
    /\ new_json = <<>>
    /\ modified_pkgs = {}
    /\ added_pkgs = {}
    /\ removed_pkgs = {}
    /\ pkg_links = NoMap
    /\ added_pkg_data = NoMap
    /\ added_repositories = {}
    /\ removed_repositories = {}
    /\ output = <<>>
    /\ pr_errors = FALSE
    /\ pr_warnings = FALSE
    /\ review_status = "None"
    /\ posted = <<>>
    /\ pr_pending = ""
    /\ pr_ret = ""

NextDiff ==
    \/ PrFile(AllPkgLists, RepoLists)
    \/ PrRepoList
    \/ PrRepo(FewPkgLists)
    \/ PrPkgList

SpecDiff == InitDiff /\ [][NextDiff]_vars

(***************************************************************************)
(* Spec: one call test_pull_request(pr_url, old_rev, current_rev, token)   *)
(***************************************************************************)
Gits ==
    {[code |-> 1, changed |-> <<>>],
     [code |-> 0, changed |-> <<[parts |-> 1, status |-> "", filename |-> ""]>>],
     [code |-> 0, changed |-> <<DiffLine("A", "repository/a.json")>>],
     [code |-> 0, changed |-> <<DiffLine("M", "package.json"), DiffLine("A", "repository/ab.json"),
                                DiffLine("M", "repository.json")>>],
     [code |-> 0, changed |-> <<DiffLine("M", "channel.json"), DiffLine("M", "repository.json")>>]}

\* the package lists and the repository lists of the manifests explored here
RunPkgLists == {<<>>, <<PkgA>>, <<PkgA, PkgB>>}

RunRepoLists ==
    {<<>>, <<Https \o <<"r">>>>,
     <<Https \o <<"r">>, Http \o <<"q">>, <<"f", "t", "p", ":", SEP, SEP, "r">>>>}

Init ==
    /\ WorldInit
    /\ RtIdle
    /\ rt_pc = "idle"
    /\ spec = [releases |-> <<>>]
    /\ PrLocals
    /\ pr_pc = "start"
    /\ git \in Gits

Next ==
    \/ PrDiff
    \/ PrFile(RunPkgLists, RunRepoLists)
    \/ PrRepoList
    \/ PrRepo(RunPkgLists)
    \/ PrPkgList
    \/ PrCallRunTests
    \/ RunTestsStep(FewInfos, RunArchives)
    \/ PrCollect
    \/ PrVerdict
    \/ PrPublish
    \/ PrFinally

Spec == Init /\ [][Next]_vars

(***************************************************************************)
(* Properties                                                              *)
(***************************************************************************)
\* the verdict that the findings produced so far call for
VerdictOf(nerrs, nwarns, names) ==
    IF nerrs > 0 THEN names[1] ELSE IF nwarns > 0 THEN names[2] ELSE names[3]

\* C1: whenever run_tests has returned, its verdict is "errors" if the call
\* produced an error finding, else "warnings" if it produced a warning, else
\* "success"; and whenever test_pull_request has derived its review status,
\* that status is ERROR if an error finding was produced anywhere in the run
\* (repository processing or a package's run_tests), else WARNING if a warning
\* was, else SUCCESS.
C1_VerdictMonotone ==
    /\ rt_pc = "done" =>
          rt_result.result = VerdictOf(h_errs - h_base[1], h_warns - h_base[2],
                                       <<"errors", "warnings", "success">>)
    /\ review_status # "None" =>
          review_status = VerdictOf(h_errs, h_warns, <<"ERROR", "WARNING", "SUCCESS">>)

\* a review status ERROR derived in a run that also produced warnings
C1_Witness == pr_pc = "publish" /\ review_status = "ERROR" /\ h_warns > 0 /\ pr_warnings

\* the paths that exist before the archive is unpacked
BeforeExtraction == {<<SEP>>, tmpdir, tmp_package_path, tmp_package_dir}

\* C2: run_tests never creates a directory or writes a file outside the
\* package destination directory tmp_package_dir, whatever the entry names of
\* the archive are.
C2_NoWriteOutsideDestination ==
    tmpdir # NoPath /\ rt_pc \in {"scan2", "checkers", "finally"} =>
        \A p \in fs_dirs \cup fs_files : p \in BeforeExtraction \/ Under(p, tmp_package_dir)

\* the top-level name of an entry: its first path component
TopName(entry) ==
    LET norm == Replace(entry, BSL, SEP) IN IF Find(norm, SEP) = -1 THEN norm
                                            ELSE SliceTo(norm, Find(norm, SEP))

TopNames(names) == {TopName(names[i]) : i \in 1..Len(names)}

\* where an entry goes when its relative path is kept as it is
Unstripped(entry) == AbsPath(PathJoin(tmp_package_dir, Replace(entry, BSL, SEP)))

\* C3: the top-level prefix is stripped only when every entry of the archive
\* lives under one single top-level directory; an archive whose entries fall
\* under two or more top-level names has every entry extracted at its original
\* relative path.
C3_StripOnlySingleRoot ==
    rt_pc \in {"scan2", "checkers"} =>
        /\ skip_root_dir => Cardinality(TopNames(namelist)) = 1
        /\ Cardinality(TopNames(namelist)) >= 2 =>
              \A i \in 1..Len(extracted) : extracted[i] = Unstripped(namelist[i])

\* the manifest file whose reconciliation has just run
LastFile == filenames[Len(filenames) - Len(todo)]

\* a package manifest (not channel.json) was the last file reconciled
AfterManifest ==
    pr_pc = "files" /\ Len(todo) < Len(filenames) /\ LastFile # "channel.json"

\* the entries of xs that are not in ys
Only(xs, ys) == ToSet(xs) \ ToSet(ys)

NameSet(entries) == {package_name(e) : e \in entries}

\* a step that reconciles one package manifest
ManifestStep == pr_pc = "files" /\ todo # <<>> /\ Head(todo) # "channel.json" /\ todo' = Tail(todo)

\* C4: for each modified package manifest, with D entries only in the old
\* list and A only in the new list: D = A classifies every new-only entry as
\* modified and nothing as added or removed; D = 0 < A classifies every
\* new-only entry as added and records its spec; A = 0 < D classifies every
\* old-only entry as removed; D # A, both nonzero, classifies the old-only
\* entries as removed and leaves the new-only entries unclassified.
C4_Reconciliation ==
    [][ManifestStep =>
          LET del == Only(old_json', new_json')
              add == Only(new_json', old_json')
              D == Cardinality(del)
              A == Cardinality(add)
          IN  /\ D = A =>
                    /\ modified_pkgs' = modified_pkgs \cup NameSet(add)
                    /\ added_pkgs' = added_pkgs
                    /\ removed_pkgs' = removed_pkgs
              /\ (D = 0 /\ A > 0) =>
                    /\ added_pkgs' = added_pkgs \cup NameSet(add)
                    /\ \A n \in NameSet(add) :
                          added_pkg_data'[n] \in add /\ package_name(added_pkg_data'[n]) = n
                    /\ modified_pkgs' = modified_pkgs
                    /\ removed_pkgs' = removed_pkgs
              /\ (A = 0 /\ D > 0) =>
                    /\ removed_pkgs' = removed_pkgs \cup NameSet(del)
                    /\ added_pkgs' = added_pkgs
                    /\ modified_pkgs' = modified_pkgs
              /\ (D # A /\ D > 0 /\ A > 0) =>
                    /\ removed_pkgs' = removed_pkgs \cup NameSet(del)
                    /\ added_pkgs' = added_pkgs
                    /\ added_pkg_data' = added_pkg_data
                    /\ modified_pkgs' = modified_pkgs
       ]_vars

\* a manifest that lost two entries and gained one: two removals, no addition
C4_Witness ==
    /\ AfterManifest
    /\ Cardinality(Only(old_json, new_json)) = 2
    /\ Cardinality(Only(new_json, old_json)) = 1
    /\ removed_pkgs = NameSet(Only(old_json, new_json))
    /\ added_pkgs = {}
    /\ modified_pkgs = {}

Disjoint3(a, b, c) == a \cap b = {} /\ a \cap c = {} /\ b \cap c = {}

\* C5: once every changed manifest is reconciled and the packages
\* of every added repository are folded in, added_pkgs, removed_pkgs and
\* modified_pkgs are pairwise disjoint.
C5_Disjoint == pr_pc = "packages" => Disjoint3(added_pkgs, removed_pkgs, modified_pkgs)

\* the changed files that are package manifests
ManifestFiles == {i \in 1..Len(filenames) : filenames[i] # "channel.json"}

\* C5, for one manifest: the three sets are pairwise disjoint when at most one
\* package manifest changed and no external repository was added.
C5_DisjointSingleManifest ==
    (pr_pc = "packages" /\ Cardinality(ManifestFiles) <= 1 /\ added_repositories = {}) =>
        Disjoint3(added_pkgs, removed_pkgs, modified_pkgs)

\* one manifest changed, no repository added, and packages were removed
C5_Witness ==
    /\ pr_pc = "packages"
    /\ Cardinality(ManifestFiles) = 1
    /\ added_repositories = {}
    /\ Cardinality(removed_pkgs) = 2

\* the record of a call that got as far as the structural rules
Resolved == res /\ ~InvalidName(info.name)

\* C6: a record without releases, of a package whose name does not
\* contain "sublime" and whose spec declares no releases, gives exactly one
\* error "No releases specified", no warning and the verdict "errors",
\* whatever the readme of the record is.
C6_NoReleasesOneErrorOnly ==
    (/\ rt_pc = "done"
     /\ Resolved
     /\ info.releases = <<>>
     /\ ~Contains(Lower(info.name.s), Sublime)
     /\ spec.releases = <<>>) =>
        rt_result = [result |-> "errors",
                     details |-> [errors |-> <<format_report(MsgNoReleasesSpecified)>>,
                                  warnings |-> <<>>]]

\* C6, with the readme rule: for a record without releases the no-releases error is
\* recorded ("No releases found..." if the spec declared releases, "No
\* releases specified" otherwise), the branch rule and the platform rule are
\* not evaluated, the readme rule still is, and nothing is downloaded,
\* extracted or checked; the errors are the name finding (if any) and the
\* no-releases error, the warnings are the readme warning exactly when the
\* record has no readme, and the verdict is "errors".
C6_NoReleasesStopsBeforeFetch ==
    (rt_pc = "done" /\ Resolved /\ info.releases = <<>>) =>
        /\ rt_result.result = "errors"
        /\ rt_result.details.errors =
              (IF Contains(Lower(info.name.s), Sublime) THEN <<RawStr(MsgSublime)>> ELSE <<>>)
              \o <<format_report(IF spec.releases # <<>> THEN MsgNoReleasesFound
                                 ELSE MsgNoReleasesSpecified)>>
        /\ rt_result.details.warnings =
              (IF info.readme.isstr THEN <<>> ELSE <<format_report(MsgReadme)>>)
        /\ fetched = <<>>
        /\ tmpdir = NoPath
        /\ RunTmpDir \notin fs_dirs
        /\ namelist = <<>>
        /\ extracted = <<>>
        /\ idx = 1

\* a record without releases and without readme, for a spec with a branch
\* release that lists every platform
C6_Witness ==
    /\ rt_pc = "done"
    /\ Resolved
    /\ info.releases = <<>>
    /\ ~info.readme.isstr
    /\ spec.releases # <<>>
    /\ spec.releases[1].branch
    /\ spec.releases[1].platforms = <<"*">>
    /\ Len(rt_result.details.warnings) = 1

\* the primary release URL of the record is no string that begins with https://
InsecurePrimary ==
    /\ Resolved
    /\ info.releases # <<>>
    /\ ~(info.releases[1].url.isstr /\ StartsWith(info.releases[1].url.s, Https))

Gone(d) == \A p \in fs_dirs \cup fs_files : ~(p = d \/ StartsWith(p, d \o <<SEP>>))

\* C8: when control has left run_tests, by return or by exception, its
\* temporary directory and everything below it is gone; when control has
\* left test_pull_request, by return or by exception, its temporary
\* directory is gone.
C8_TmpDirsRemoved ==
    /\ rt_pc \in {"done", "raised"} => Gone(RunTmpDir)
    /\ pr_pc \in {"done", "raised"} => Gone(RunTmpDir) /\ Gone(PrTmpDir)

\* run_tests was left by an exception after its temporary directory was
\* created and the archive was unpacked into it
C8_Witness == rt_pc = "raised" /\ tmpdir = RunTmpDir /\ extracted # <<>>

\* C9: whatever the provider does, fetch_package_metadata returns a
\* two-element result (True, record) or (False, message), after
\* close_all_connections was called.
C9_TwoElementResult ==
    rt_pc = "unpack" =>
        /\ fm_ret.kind = "tuple"
        /\ fm_closed
        /\ conns = 0

\* C10: a download failure of one added package never aborts the run:
\* test_pull_request is not left by an exception while the result it holds
\* from run_tests carries a download failure.
C10_DownloadFailureNeverAborts ==
    pr_pc = "raised" =>
        \A i \in 1..Len(rt_result.details.errors) :
            rt_result.details.errors[i] # format_report(MsgDownload)

\* a step of the loop over the added repositories
RepoStep == pr_pc = "repos" /\ todo # <<>> /\ todo' = Tail(todo)

\* the lines the step appends to the report
NewLines == SubSeq(output', Len(output) + 1, Len(output'))

\* the packages of list l are in the added set, with their specs
Folded(l) ==
    /\ added_pkgs' = added_pkgs \cup {package_name(l[i]) : i \in 1..Len(l)}
    /\ \A i \in 1..Len(l) : added_pkg_data'[package_name(l[i])] = l[i]

\* C11: an added repository whose URL begins with http:// gets the error
\* line "must be served over HTTPS", which forces the review status ERROR;
\* like an https:// repository it is fetched once, and when its manifest
\* parses, every package it declares is put into added_pkgs with its spec
\* and is handed to run_tests before the review is published.  An added URL
\* with neither scheme is listed, but it is not fetched and adds nothing.
C11_InsecureRepositoryProcessed ==
    /\ [][RepoStep =>
            LET repo == Head(todo)
                http == StartsWith(repo, Http)
                https == StartsWith(repo, Https)
            IN  /\ \E i \in 1..Len(output) : output[i] = Line("item", "", repo)
                /\ http =>
                      /\ pr_errors'
                      /\ Len(NewLines) >= 3
                      /\ NewLines[3] = Line("ERROR", MsgNeedHttps, <<>>)
                /\ (http \/ https) =>
                      /\ fetched' = Append(fetched, <<"fetching repository", Str(repo)>>)
                      /\ NewLines[2] = Line("Processing repository", "", repo)
                      /\ NewLines[Len(NewLines)].tag = "Found packages" =>
                            \E l \in RunPkgLists :
                               Len(l) = NewLines[Len(NewLines)].n /\ Folded(l)
                /\ ~(http \/ https) =>
                      /\ fetched' = fetched
                      /\ output' = output
                      /\ added_pkgs' = added_pkgs
                      /\ added_pkg_data' = added_pkg_data
                      /\ pr_errors' = pr_errors]_vars
    /\ [](pr_pc = "publish" =>
            /\ (\E repo \in added_repositories : StartsWith(repo, Http)) =>
                  review_status = "ERROR"
            /\ \A n \in added_pkgs :
                  \E i \in 1..Len(output) : output[i] = Line("Processing package", "", n))

\* a review about to be published for a pull request that added an http://
\* repository declaring two packages, and a URL without scheme
C11_Witness ==
    /\ pr_pc = "publish"
    /\ added_repositories = {Http \o <<"q">>, <<"f", "t", "p", ":", SEP, SEP, "r">>}
    /\ \E i \in 1..Len(fetched) : fetched[i] = <<"fetching repository", Str(Http \o <<"q">>)>>
    /\ \E i \in 1..Len(output) : output[i].tag = "Found packages" /\ output[i].n = 2
    /\ added_pkgs = {<<"A">>, <<"B">>}

\* the findings of a list, as a set
Findings(reports) == {reports[i] : i \in 1..Len(reports)}

\* C12: every error and every warning that the structural rules or a checker
\* appended during a call of run_tests is in the details of the result the
\* call returns, whichever exit path it takes.
C12_NoFindingDiscarded ==
    rt_pc = "done" =>
        /\ Findings(errors) \subseteq Findings(rt_result.details.errors)
        /\ Findings(warnings) \subseteq Findings(rt_result.details.warnings)

====
